---- MODULE Spec2Model ----
(***************************************************************************)
(* Subtitle gap detection (auto-ad): InputHandler.load_srt_file with       *)
(* EncodingDetector.detect_file_encoding, GapDetector.detect_gaps with its *)
(* statistics, OutputGenerator.generate_gap_srt, and the batch run of the  *)
(* graphical shell (GapDetectorUI) with its worker thread, its message *)
(* queue and its polling callback.                                         *)
(*                                                                         *)
(* Three state machines share the operators of the pipeline:               *)
(*   Spec          one detector instance, one input file, one marker file; *)
(*   SpecShell     the shell: field edits, Browse, Process, worker, poll   *)
(*                 (FairShell: the same under fair scheduling);            *)
(*   SpecEncoding  encoding detection and decoding of one byte stream.     *)
(*                                                                         *)
(* Units.  A pysrt SubRipTime is its ordinal, an integer number of         *)
(* milliseconds.  A datetime.timedelta is an integer number of             *)
(* microseconds.  A time line of an .srt file, "HH:MM:SS,mmm", is the      *)
(* tuple <<HH, MM, SS, mmm>> of its four fields.                           *)
(***************************************************************************)
EXTENDS Integers, Sequences, FiniteSets, TLC

VARIABLES
    min_gap_arg,        \* the argument GapDetector was constructed with
    min_gap_duration,   \* GapDetector.min_gap_duration, a timedelta
    constructed,        \* the GapDetector exists
    file,               \* the input file detect_gaps is called on
    calls,              \* calls of detect_gaps made on the instance
    loaded,             \* what load_srt_file gave the latest call
    result,             \* what the latest call gave its caller
    prev,               \* what the call before it gave its caller
    gen,                \* OutputGenerator: "none", "ready", "written", "reloaded"
    gap_text,           \* OutputGenerator.gap_text
    track,              \* the SubRipFile generate_gap_srt built
    outfile,            \* the marker file it saved
    reloaded,           \* load_srt_file on the marker file
    \* GapDetectorUI
    min_gap_var,        \* the text of the StringVar self.min_gap_duration
    selected_files,     \* self.selected_files
    is_processing,      \* self.is_processing
    process_btn,        \* the state of self.process_btn
    processing_queue,   \* self.processing_queue
    after_pending,      \* _check_processing_complete calls scheduled by after()
    threads,            \* the worker threads started so far
    \* EncodingDetector and the decoding of load_srt_file
    enc_file,           \* the file whose bytes are decoded
    detection,          \* what detect_file_encoding returned for it
    decoding,           \* the decoding load_srt_file made of it
    enc_loaded          \* what load_srt_file returned for it

shellVars == <<min_gap_var, selected_files, is_processing, process_btn,
               processing_queue, after_pending, threads>>
encodingVars == <<enc_file, detection, decoding, enc_loaded>>

vars == <<min_gap_arg, min_gap_duration, constructed, file, calls, loaded,
          result, prev, gen, gap_text, track, outfile, reloaded,
          shellVars, encodingVars>>

\* Bounds of the model.
MaxEntries == 3        \* blocks in an input file
MaxTick == 2           \* an input entry starts at tick 0..MaxTick
MaxCalls == 2          \* detect_gaps calls on the one detector instance

\* One tick of input time, in milliseconds: 1001 ms and 2002 ms are times
\* whose seconds value, as a binary64 float, lies below the exact value.
TickMs(t) == t * 1001

Ticks == 0 .. MaxTick
\* An input entry lasts 0 or 1 tick (pysrt accepts start = end).
DurTicks == {0, 1}
\* The minimum gap duration given to GapDetector, in tenths of a microsecond
\* (a float number of seconds in the code): -1.001 s, 0.4 us, 1.001 s.
MinGapArgs == {0 - 10010000, 4, 10010000}
MarkerTexts == {"[Silence]", "(gap)"}

----------------------------------------------------------------------------
\* Arithmetic helpers.

Pow2(n) == 2 ^ n

\* 2^k mod m, by repeated doubling (k may exceed the width of an integer).
RECURSIVE Pow2Mod(_, _)
Pow2Mod(k, m) == IF k = 0 THEN 1 % m ELSE (2 * Pow2Mod(k - 1, m)) % m

\* floor(log2(n)) for n >= 1.
RECURSIVE Log2Floor(_)
Log2Floor(n) == IF n < 2 THEN 0 ELSE 1 + Log2Floor(n \div 2)

\* The largest i (possibly negative) with 2^i <= ms / 1000, for ms >= 1.
RECURSIVE Log2FloorMilli(_)
Log2FloorMilli(ms) ==
    IF ms >= 1000 THEN Log2Floor(ms \div 1000)
    ELSE Log2FloorMilli(2 * ms) - 1

\* a / b rounded to the nearest integer, ties to the even one (b > 0):
\* the rounding of timedelta(seconds=float) and of timedelta / int.
RoundHalfEvenDiv(a, b) ==
    LET q == a \div b
        r == a % b
    IN  IF 2 * r > b \/ (2 * r = b /\ q % 2 = 1) THEN q + 1 ELSE q

RECURSIVE SumSeq(_)
SumSeq(s) == IF s = <<>> THEN 0 ELSE Head(s) + SumSeq(Tail(s))

SeqMin(s) == CHOOSE x \in {s[i] : i \in DOMAIN s} : \A j \in DOMAIN s : x <= s[j]
SeqMax(s) == CHOOSE x \in {s[i] : i \in DOMAIN s} : \A j \in DOMAIN s : x >= s[j]

----------------------------------------------------------------------------
\* pysrt's SubRipTime.

\* SubRipTime(hours, minutes, seconds, milliseconds).ordinal
SubRipTimeOrdinal(h, m, s, ms) == h * 3600000 + m * 60000 + s * 1000 + ms

\* str(SubRipTime): the fields of "HH:MM:SS,mmm" for an ordinal >= 0.
SrtTimeString(ord) ==
    << ord \div 3600000, (ord % 3600000) \div 60000,
       (ord % 60000) \div 1000, ord % 1000 >>

\* SubRipTime.from_string: the ordinal of a parsed time line.
SrtTimeFromString(f) == SubRipTimeOrdinal(f[1], f[2], f[3], f[4])

\* timedelta(milliseconds=ordinal), in microseconds.
TimedeltaMs(ord) == ord * 1000

\* timedelta(seconds=x) for a float x given in tenths of a microsecond:
\* the constructor rounds to the nearest microsecond, ties to even.
TimedeltaSeconds(x10) == RoundHalfEvenDiv(x10, 10)

----------------------------------------------------------------------------
\* Input files.

Block(i, startMs, endMs, text, ok) ==
    [index |-> i, start |-> SrtTimeString(startMs), end |-> SrtTimeString(endMs),
     text |-> text, wellformed |-> ok]

\* The text of the i-th block of an input file.
LineText(i) ==
    IF i = 1 THEN "un" ELSE IF i = 2 THEN "deux" ELSE IF i = 3 THEN "trois"
    ELSE IF i = 4 THEN "quatre" ELSE "encore"

EntryChoices == [start : Ticks, dur : DurTicks]

\* The blocks of a file whose i-th entry has the times c[i]; the entry at
\* index empty (0: none) has no text line.
BlocksOf(c, empty) ==
    [i \in DOMAIN c |->
        Block(i, TickMs(c[i].start), TickMs(c[i].start + c[i].dur),
              IF i = empty THEN "" ELSE LineText(i), TRUE)]

BlockSeqs ==
    UNION {{BlocksOf(c, e) : c \in [1 .. n -> EntryChoices], e \in 0 .. n} :
           n \in 0 .. MaxEntries}

\* The bytes of a file, as far as its decoding goes, are a sequence of units:
\*   "bom"  EF BB BF, the UTF-8 byte-order mark
\*   "a"    an ASCII byte
\*   "u2"   C3 A9, a well-formed two-byte UTF-8 sequence
\*   "ff"   FF, a byte no UTF-8 text contains
\*   "81"   81, a lone UTF-8 continuation byte that Windows-1252 leaves undefined
\* The index and time lines of every file are ASCII.
ByteUnits == {"bom", "a", "u2", "ff", "81"}
AsciiBytes == <<"a">>

\* What chardet.detect says of the bytes of a file: its "encoding" ("" for
\* None) and its "confidence" in hundredths.
Guess(encoding, confidence) == [encoding |-> encoding, confidence |-> confidence]
AsciiGuess == Guess("ascii", 100)

SrtFile(blocks) ==
    [exists |-> TRUE, suffix |-> ".srt", read |-> "ok", blocks |-> blocks,
     bytes |-> AsciiBytes, chardet |-> AsciiGuess]

OneBlock == <<Block(1, 0, 1001, "un", TRUE)>>

\* Files that fail before or while their content is read, a file with an
\* upper-case extension, files with a block pysrt cannot parse, a file
\* whose entry ends before it starts, and a file whose first entry stays on
\* display while two later entries come and go.
SpecialFiles ==
    { [exists |-> FALSE, suffix |-> ".srt", read |-> "FileNotFoundError", blocks |-> <<>>,
       bytes |-> AsciiBytes, chardet |-> AsciiGuess],
      [exists |-> TRUE, suffix |-> ".txt", read |-> "ok", blocks |-> OneBlock,
       bytes |-> AsciiBytes, chardet |-> AsciiGuess],
      [exists |-> TRUE, suffix |-> ".SRT", read |-> "ok", blocks |-> OneBlock,
       bytes |-> AsciiBytes, chardet |-> AsciiGuess],
      [exists |-> TRUE, suffix |-> ".srt", read |-> "FileNotFoundError", blocks |-> OneBlock,
       bytes |-> AsciiBytes, chardet |-> AsciiGuess],
      [exists |-> TRUE, suffix |-> ".srt", read |-> "PermissionError", blocks |-> OneBlock,
       bytes |-> AsciiBytes, chardet |-> AsciiGuess],
      [exists |-> TRUE, suffix |-> ".srt", read |-> "ok",
       blocks |-> <<Block(1, 0, 0, "not a subtitle", FALSE)>>,
       bytes |-> AsciiBytes, chardet |-> AsciiGuess],
      [exists |-> TRUE, suffix |-> ".srt", read |-> "ok",
       blocks |-> <<Block(1, 0, 0, "not a subtitle", FALSE),
                    Block(2, 1001, 2002, "deux", TRUE)>>,
       bytes |-> AsciiBytes, chardet |-> AsciiGuess],
      [exists |-> TRUE, suffix |-> ".srt", read |-> "ok",
       blocks |-> <<Block(1, 2002, 1001, "un", TRUE)>>,
       bytes |-> AsciiBytes, chardet |-> AsciiGuess],
      [exists |-> TRUE, suffix |-> ".srt", read |-> "ok",
       blocks |-> <<Block(1, 0, 4004, "un", TRUE),
                    Block(2, 1001, 2002, "deux", TRUE),
                    Block(3, 3003, 4004, "trois", TRUE)>>,
       bytes |-> AsciiBytes, chardet |-> AsciiGuess] }

Files == {SrtFile(b) : b \in BlockSeqs} \cup SpecialFiles

NoFile ==
    [exists |-> FALSE, suffix |-> "", read |-> "FileNotFoundError", blocks |-> <<>>,
     bytes |-> <<>>, chardet |-> Guess("", 0)]

MaxBytes == 3          \* byte units of a file whose encoding is detected

\* Results of chardet.detect on bytes that are not UTF-8: nothing, or an
\* encoding under chardet's name for it with a confidence below, at and above
\* the 0.8 of the detector.
ChardetNames == {"ascii", "utf-8", "ISO-8859-1", "Windows-1252"}
ChardetConfidences == {73, 80, 99}
ChardetResults ==
    {Guess("", 0)} \cup
    {Guess(e, c) : e \in ChardetNames, c \in ChardetConfidences}

ByteSeqs == UNION {[1 .. n -> ByteUnits] : n \in 0 .. MaxBytes}

\* A readable .srt file with one block, the bytes raw and the chardet result cd.
EncodedFile(raw, cd) == [SrtFile(OneBlock) EXCEPT !.bytes = raw, !.chardet = cd]

EncodedFiles == {EncodedFile(raw, cd) : raw \in ByteSeqs, cd \in ChardetResults}

----------------------------------------------------------------------------
\* Python's codecs, on the byte units of the model.

\* The codec an encoding name stands for; codec names are looked up without
\* regard to case.
CodecOf(name) ==
    IF name \in {"utf-8", "UTF-8"} THEN "utf_8"
    ELSE IF name \in {"utf-8-sig", "UTF-8-SIG"} THEN "utf_8_sig"
    ELSE IF name \in {"iso-8859-1", "ISO-8859-1", "latin-1"} THEN "latin_1"
    ELSE IF name \in {"cp1252", "windows-1252", "Windows-1252"} THEN "cp1252"
    ELSE "ascii"

\* The unit is a byte sequence the codec rejects with UnicodeDecodeError.
Undecodable(codec, u) ==
    IF codec \in {"utf_8", "utf_8_sig"} THEN u \in {"ff", "81"}
    ELSE IF codec = "cp1252" THEN u = "81"
    ELSE IF codec = "ascii" THEN u # "a"
    ELSE FALSE

\* The characters the codec gives for a unit it accepts.
UnitChars(codec, u) ==
    IF u = "a" THEN <<"A">>
    ELSE IF codec \in {"utf_8", "utf_8_sig"}
    THEN (IF u = "bom" THEN <<"U+FEFF">> ELSE <<"U+00E9">>)
    ELSE IF u = "bom" THEN <<"U+00EF", "U+00BB", "U+00BF">>
    ELSE IF u = "u2" THEN <<"U+00C3", "U+00A9">>
    ELSE IF u = "ff" THEN <<"U+00FF">>
    ELSE <<"U+0081">>

RECURSIVE DecodeUnits(_, _)
DecodeUnits(codec, raw) ==
    IF raw = <<>> THEN <<>>
    ELSE UnitChars(codec, Head(raw)) \o DecodeUnits(codec, Tail(raw))

\* raw.decode(name), open(path, encoding=name).read(): the text, or the
\* UnicodeDecodeError of the codec.  utf-8-sig drops one leading mark.
Decode(name, raw) ==
    LET codec == CodecOf(name)
        body == IF codec = "utf_8_sig" /\ raw # <<>> /\ Head(raw) = "bom"
                THEN Tail(raw) ELSE raw
    IN  IF \E i \in DOMAIN raw : Undecodable(codec, raw[i])
        THEN [ok |-> FALSE, text |-> <<>>,
              error |-> "'" \o name \o "' codec can't decode byte"]
        ELSE [ok |-> TRUE, text |-> DecodeUnits(codec, body), error |-> ""]

----------------------------------------------------------------------------
\* EncodingDetector.

PREFERRED_ENCODINGS == <<"utf-8", "utf-8-sig", "iso-8859-1", "cp1252">>

\* str.lower() on the encoding names of the model.
LowerName(name) ==
    IF name = "ISO-8859-1" THEN "iso-8859-1"
    ELSE IF name = "Windows-1252" THEN "windows-1252"
    ELSE IF name = "UTF-8" THEN "utf-8"
    ELSE name

\* Variant: a confidence of exactly 0.8 counts as low.
LowConfidenceAtThreshold(confidence) == confidence <= 80

\* confidence < 0.8
LowConfidence(confidence) == confidence < 80

\* The first encoding of the list from position i on that decodes raw, "" if
\* none does.
RECURSIVE FirstDecoding(_, _, _)
FirstDecoding(encodings, raw, i) ==
    IF i > Len(encodings) THEN ""
    ELSE IF Decode(encodings[i], raw).ok THEN encodings[i]
    ELSE FirstDecoding(encodings, raw, i + 1)

\* detect_file_encoding on a file with the bytes raw, for which
\* chardet.detect returns cd; the confidence is in hundredths.
DetectFileEncoding(raw, cd) ==
    IF Decode("utf-8-sig", raw).ok
    THEN Guess("utf-8-sig", 100)
    ELSE LET preferred ==
                 IF cd.encoding = "" \/ LowConfidence(cd.confidence)
                 THEN FirstDecoding(PREFERRED_ENCODINGS, raw, 1)
                 ELSE ""
         IN  IF preferred # "" THEN Guess(preferred, 100)
             ELSE IF cd.encoding = "" THEN Guess("cp1252", 50)
             ELSE Guess(LowerName(cd.encoding), cd.confidence)

NoDetection == Guess("", 0)

----------------------------------------------------------------------------
\* The decoding of load_srt_file.

\* Variant: Latin-1 tried before Windows-1252.
FallbackEncodingsLatinFirst == <<"latin-1", "cp1252", "iso-8859-1">>

\* for fallback_encoding in ["cp1252", "latin-1", "iso-8859-1"]
FallbackEncodings == <<"cp1252", "latin-1", "iso-8859-1">>

NoDecoding == [outcome |-> "none", encoding |-> "", text |-> <<>>, reason |-> ""]

\* The reading of the file: with the detected encoding, and after a
\* UnicodeDecodeError with the first fallback encoding that decodes; when
\* none does, ValueError with the text of the first error.
DecodeFile(f) ==
    LET det == DetectFileEncoding(f.bytes, f.chardet)
        first == Decode(det.encoding, f.bytes)
        fallback == FirstDecoding(FallbackEncodings, f.bytes, 1)
    IN  IF first.ok
        THEN [outcome |-> "ok", encoding |-> det.encoding, text |-> first.text,
              reason |-> ""]
        ELSE IF fallback # ""
        THEN [outcome |-> "ok", encoding |-> fallback,
              text |-> Decode(fallback, f.bytes).text, reason |-> ""]
        ELSE [outcome |-> "ValueError", encoding |-> "", text |-> <<>>,
              reason |-> "Failed to decode file with any known encoding: "
                         \o first.error]

----------------------------------------------------------------------------
\* InputHandler.

VALID_EXTENSIONS == {".srt"}

\* str.lower() on the suffixes of the model.
Lower(s) == IF s = ".SRT" THEN ".srt" ELSE s

\* Variant: the extension checked, the existence of the path not.
ValidateFilePathSuffixOnly(f) == Lower(f.suffix) \in VALID_EXTENSIONS

ValidateFilePath(f) == f.exists /\ Lower(f.suffix) \in VALID_EXTENSIONS

\* pysrt.from_string: one SubRipItem per well-formed block, in file order;
\* a block that does not parse is skipped without an error.
RECURSIVE FromString(_)
FromString(blocks) ==
    IF blocks = <<>> THEN <<>>
    ELSE LET b == Head(blocks)
         IN  IF b.wellformed
             THEN <<[index |-> b.index, start |-> SrtTimeFromString(b.start),
                     end |-> SrtTimeFromString(b.end), text |-> b.text]>>
                  \o FromString(Tail(blocks))
             ELSE FromString(Tail(blocks))

\* A SubRipTime defines neither __bool__ nor __len__: it is always true.
TimeTruthy(t) == TRUE

ValidateSrtContent(subs) ==
    /\ Len(subs) > 0
    /\ \A i \in DOMAIN subs :
          TimeTruthy(subs[i].start) /\ TimeTruthy(subs[i].end) /\ subs[i].text # ""

Raised(kind, reason) == [outcome |-> kind, subs |-> <<>>, reason |-> reason]

LoadSrtFile(f) ==
    IF ~ValidateFilePath(f)
    THEN Raised("ValueError", "Invalid file path or extension")
    ELSE IF f.read = "FileNotFoundError"
    THEN Raised("FileNotFoundError", "SRT file not found")
    ELSE IF f.read # "ok"
    THEN Raised("ValueError", "Invalid SRT file")
    ELSE IF DecodeFile(f).outcome # "ok"
    THEN Raised("ValueError", "Invalid SRT file: " \o DecodeFile(f).reason)
    ELSE LET subs == FromString(f.blocks)
         IN  IF ~ValidateSrtContent(subs)
             THEN Raised("ValueError", "Invalid SRT file: Invalid SRT content")
             ELSE [outcome |-> "ok", subs |-> subs, reason |-> ""]

----------------------------------------------------------------------------
\* GapDetector.

\* sorted(subtitles, key=lambda x: x.start.ordinal): Python's sort is stable,
\* so an entry goes after every entry whose start is not greater.
RECURSIVE InsertByStart(_, _)
InsertByStart(sorted, x) ==
    IF sorted = <<>> THEN <<x>>
    ELSE IF Head(sorted).start <= x.start
         THEN <<Head(sorted)>> \o InsertByStart(Tail(sorted), x)
         ELSE <<x>> \o sorted

RECURSIVE SortedByStart(_)
SortedByStart(subs) ==
    IF subs = <<>> THEN <<>>
    ELSE InsertByStart(SortedByStart(SubSeq(subs, 1, Len(subs) - 1)), subs[Len(subs)])

\* Variant: the accumulators kept on the instance and not reset by a call.
CarriedAccumulators ==
    [gaps |-> result.gaps, total_duration |-> result.stats.total_duration]

\* The locals of detect_gaps before its loop: gaps = [], total_duration = timedelta().
NewAccumulators == [gaps |-> <<>>, total_duration |-> 0]

\* Variant: the threshold compared with > instead of >=.
MeetsThresholdStrict(gap_duration, min_gap) == gap_duration > min_gap

\* gap_duration >= self.min_gap_duration
MeetsThreshold(gap_duration, min_gap) == gap_duration >= min_gap

\* Variant: the loop runs over every entry and pairs the last with the first.
RECURSIVE ScanPairsCircular(_, _, _, _)
ScanPairsCircular(sorted_subs, min_gap, i, acc) ==
    IF i > Len(sorted_subs) THEN acc
    ELSE LET current_sub == sorted_subs[i]
             next_sub == sorted_subs[(i % Len(sorted_subs)) + 1]
             gap_duration == TimedeltaMs(next_sub.start - current_sub.end)
             gap == [start_time |-> TimedeltaMs(current_sub.end),
                     end_time |-> TimedeltaMs(next_sub.start),
                     duration |-> gap_duration,
                     previous_subtitle |-> current_sub.text,
                     next_subtitle |-> next_sub.text]
         IN  IF MeetsThreshold(gap_duration, min_gap)
             THEN ScanPairsCircular(sorted_subs, min_gap, i + 1,
                                    [gaps |-> Append(acc.gaps, gap),
                                     total_duration |-> acc.total_duration + gap_duration])
             ELSE ScanPairsCircular(sorted_subs, min_gap, i + 1, acc)

\* The loop of detect_gaps from index i (1-based here) on, with its locals in acc.
RECURSIVE ScanPairs(_, _, _, _)
ScanPairs(sorted_subs, min_gap, i, acc) ==
    IF i > Len(sorted_subs) - 1 THEN acc
    ELSE LET current_sub == sorted_subs[i]
             next_sub == sorted_subs[i + 1]
             gap_start == current_sub.end
             gap_end == next_sub.start
             gap_duration == TimedeltaMs(gap_end - gap_start)
             gap == [start_time |-> TimedeltaMs(gap_start),
                     end_time |-> TimedeltaMs(gap_end),
                     duration |-> gap_duration,
                     previous_subtitle |-> current_sub.text,
                     next_subtitle |-> next_sub.text]
         IN  IF MeetsThreshold(gap_duration, min_gap)
             THEN ScanPairs(sorted_subs, min_gap, i + 1,
                            [gaps |-> Append(acc.gaps, gap),
                             total_duration |-> acc.total_duration + gap_duration])
             ELSE ScanPairs(sorted_subs, min_gap, i + 1, acc)

Durations(gaps) == [i \in DOMAIN gaps |-> gaps[i].duration]

\* The statistics dictionary; raised names the exception the computation
\* raises ("none": it returns).
StatsDict(n, total, avg, lo, hi, raised) ==
    [total_gaps |-> n, total_duration |-> total, average_duration |-> avg,
     min_duration |-> lo, max_duration |-> hi, raised |-> raised]

\* Variant: the total reported as the average (the division left out).
StatsOfGapsNoDivide(gaps, total_duration) ==
    IF Len(gaps) = 0
    THEN StatsDict(0, total_duration, 0, 0, 0, "ZeroDivisionError")
    ELSE StatsDict(Len(gaps), total_duration, total_duration,
                   SeqMin(Durations(gaps)), SeqMax(Durations(gaps)), "none")

\* The second return of _calculate_stats: timedelta / int raises
\* ZeroDivisionError for 0, and min() of nothing raises ValueError.
StatsOfGaps(gaps, total_duration) ==
    IF Len(gaps) = 0
    THEN StatsDict(0, total_duration, 0, 0, 0, "ZeroDivisionError")
    ELSE StatsDict(Len(gaps), total_duration,
                   RoundHalfEvenDiv(total_duration, Len(gaps)),
                   SeqMin(Durations(gaps)), SeqMax(Durations(gaps)), "none")

\* Variant: no early return for an empty gap list.
CalculateStatsUnguarded(gaps, total_duration) == StatsOfGaps(gaps, total_duration)

CalculateStats(gaps, total_duration) ==
    IF gaps = <<>>
    THEN StatsDict(0, 0, 0, 0, 0, "none")
    ELSE StatsOfGaps(gaps, total_duration)

\* What a call of detect_gaps gives its caller: the exception it raises, or
\* "ok" with the gap list and the statistics.
NoStats == StatsDict(0, 0, 0, 0, 0, "none")
NoResult == [outcome |-> "none", gaps |-> <<>>, stats |-> NoStats]

DetectResult(ld, min_gap) ==
    IF ld.outcome # "ok"
    THEN [outcome |-> ld.outcome, gaps |-> <<>>, stats |-> NoStats]
    ELSE LET sorted_subs == SortedByStart(ld.subs)
             acc == ScanPairs(sorted_subs, min_gap, 1, NewAccumulators)
             stats == CalculateStats(acc.gaps, acc.total_duration)
         IN  IF stats.raised # "none"
             THEN [outcome |-> stats.raised, gaps |-> <<>>, stats |-> NoStats]
             ELSE [outcome |-> "ok", gaps |-> acc.gaps, stats |-> stats]

----------------------------------------------------------------------------
\* OutputGenerator.

\* TRUE iff total_seconds * 1000, computed in binary64 from
\* total_seconds = float(ms / 1000), lies below the integer ms (ms >= 0).
\* With ms / 1000 in [2^i, 2^(i+1)) and k = 52 - i, the mantissa of
\* total_seconds is M = round(ms * 2^k / 1000) and 1000 * M - ms * 2^k = R,
\* so the exact product is ms + R / 2^k; it rounds to a float below ms iff
\* it lies more than half the float spacing below ms (ties go to ms, whose
\* mantissa is even).  The spacing below ms is 2^(j-52) for ms in
\* (2^j, 2^(j+1)) and half of that for ms = 2^j.
FloatProductBelow(ms) ==
    IF ms = 0 THEN FALSE
    ELSE LET i == Log2FloorMilli(ms)
             j == Log2Floor(ms)
             a2 == ((ms % 2000) * Pow2Mod(52 - i, 2000)) % 2000
             a == a2 % 1000
             R == IF a < 500 THEN 0 - a
                  ELSE IF a > 500 THEN 1000 - a
                  ELSE IF a2 >= 1000 THEN 500 ELSE 0 - 500
             d == Pow2(j - i)
         IN  IF Pow2(j) = ms THEN 4 * R < 0 - d ELSE 2 * R < 0 - d

\* _timedelta_to_srt_time for a timedelta of whole milliseconds: the ordinal
\* of SubRipTime(hours, minutes, seconds, milliseconds).  hours, minutes and
\* seconds are floors of total_seconds, which agree with the integer floors;
\* milliseconds is int((total_seconds * 1000) % 1000), a truncation of the
\* float product.
TimedeltaToSrtTime(td) ==
    LET ms == td \div 1000
        hours == ms \div 3600000
        minutes == (ms % 3600000) \div 60000
        seconds == (ms % 60000) \div 1000
        product == IF FloatProductBelow(ms) THEN ms - 1 ELSE ms
        milliseconds == product % 1000
    IN  SubRipTimeOrdinal(hours, minutes, seconds, milliseconds)

\* The SubRipItem generate_gap_srt builds for the index-th gap.
GapItem(index, gap, text) ==
    [index |-> index,
     start |-> TimedeltaToSrtTime(gap.start_time),
     end |-> TimedeltaToSrtTime(gap.end_time),
     text |-> text]

\* The SubRipFile generate_gap_srt builds.
GapTrack(gap_list, text) == [i \in DOMAIN gap_list |-> GapItem(i, gap_list[i], text)]

\* SubRipFile.save(path, encoding="utf-8-sig"): one block per item, its times
\* printed as HH:MM:SS,mmm, after a byte-order mark.
SaveSrt(items) ==
    [SrtFile([i \in DOMAIN items |->
        [index |-> items[i].index, start |-> SrtTimeString(items[i].start),
         end |-> SrtTimeString(items[i].end), text |-> items[i].text,
         wellformed |-> TRUE]])
     EXCEPT !.bytes = <<"bom">> \o @, !.chardet = Guess("UTF-8-SIG", 100)]

----------------------------------------------------------------------------
\* The state machine.

detectorVars == <<min_gap_arg, min_gap_duration, constructed>>
callVars == <<file, calls, loaded, result, prev>>
outputVars == <<gen, gap_text, track, outfile, reloaded>>

Init ==
    /\ min_gap_arg = 0
    /\ min_gap_duration = 0
    /\ constructed = FALSE
    /\ file = NoFile
    /\ calls = 0
    /\ loaded = Raised("none", "")
    /\ result = NoResult
    /\ prev = NoResult
    /\ gen = "none"
    /\ gap_text = ""
    /\ track = <<>>
    /\ outfile = NoFile
    /\ reloaded = Raised("none", "")
    \* GapDetectorUI.__init__
    /\ min_gap_var = "1.001"
    /\ selected_files = <<>>
    /\ is_processing = FALSE
    /\ process_btn = "disabled"
    /\ processing_queue = <<>>
    /\ after_pending = 0
    /\ threads = <<>>
    \* no byte stream examined yet
    /\ enc_file = NoFile
    /\ detection = NoDetection
    /\ decoding = NoDecoding
    /\ enc_loaded = Raised("none", "")

\* GapDetector(min_gap_duration=m)
GapDetectorInit ==
    /\ ~constructed
    /\ \E m \in MinGapArgs :
          /\ min_gap_arg' = m
          /\ min_gap_duration' = TimedeltaSeconds(m)
    /\ constructed' = TRUE
    /\ UNCHANGED <<callVars, outputVars, shellVars, encodingVars>>

\* gap_detector.detect_gaps(path): the first call chooses the file, a later
\* call is made on the same file.
DetectGaps ==
    /\ constructed
    /\ calls < MaxCalls
    /\ \E f \in (IF calls = 0 THEN Files ELSE {file}) :
          /\ file' = f
          /\ loaded' = LoadSrtFile(f)
          /\ result' = DetectResult(loaded', min_gap_duration)
    /\ prev' = result
    /\ calls' = calls + 1
    /\ UNCHANGED <<detectorVars, outputVars, shellVars, encodingVars>>

\* OutputGenerator(gap_text=t), once detect_gaps has returned a gap list.
OutputGeneratorInit ==
    /\ gen = "none"
    /\ result.outcome = "ok"
    /\ \E t \in MarkerTexts : gap_text' = t
    /\ gen' = "ready"
    /\ UNCHANGED <<detectorVars, callVars, track, outfile, reloaded>>
    /\ UNCHANGED <<shellVars, encodingVars>>

\* output_generator.generate_gap_srt(gaps, path), path ending in _gaps.srt.
GenerateGapSrt ==
    /\ gen = "ready"
    /\ track' = GapTrack(result.gaps, gap_text)
    /\ outfile' = SaveSrt(track')
    /\ gen' = "written"
    /\ UNCHANGED <<detectorVars, callVars, gap_text, reloaded>>
    /\ UNCHANGED <<shellVars, encodingVars>>

\* InputHandler.load_srt_file on the marker file.
LoadMarkerFile ==
    /\ gen = "written"
    /\ reloaded' = LoadSrtFile(outfile)
    /\ gen' = "reloaded"
    /\ UNCHANGED <<detectorVars, callVars, gap_text, track, outfile>>
    /\ UNCHANGED <<shellVars, encodingVars>>

Next ==
    \/ GapDetectorInit
    \/ DetectGaps
    \/ OutputGeneratorInit
    \/ GenerateGapSrt
    \/ LoadMarkerFile

Spec == Init /\ [][Next]_vars

----------------------------------------------------------------------------
\* GapDetectorUI: the graphical shell and its batch run.

MaxSelected == 2       \* files chosen in one file dialog
MaxBatches == 2        \* worker threads started in one session

\* Texts the user types into the minimum-gap field.
MinGapTexts == {"1.001", "0", "-1.001", "abc"}

\* float(text) raises ValueError for a text that is no number.
FloatRaises(t) == t \notin {"1.001", "0", "-1.001"}

\* float(text), in tenths of a microsecond.
Float(t) == IF t = "1.001" THEN 10010000
            ELSE IF t = "-1.001" THEN 0 - 10010000 ELSE 0

\* The files the dialog offers: one with a gap of two ticks and one whose
\* only block pysrt cannot parse.
ShellFiles ==
    { [name |-> "film.srt",
       file |-> SrtFile(BlocksOf(<<[start |-> 0, dur |-> 0],
                                   [start |-> 2, dur |-> 1]>>, 0))],
      [name |-> "notes.srt",
       file |-> SrtFile(<<Block(1, 0, 0, "not a subtitle", FALSE)>>)] }

\* filedialog.askopenfilenames: distinct paths, none when the dialog is
\* cancelled.
Selections ==
    UNION {{s \in [1 .. n -> ShellFiles] :
               \A i, j \in 1 .. n : i # j => s[i] # s[j]} :
           n \in 0 .. MaxSelected}

\* A message on the queue: (msg_type, data).  name is the file the text names
\* ("" for none), n the total_processed of a "complete" message.
Msg(type, name, text, n) == [type |-> type, name |-> name, text |-> text, n |-> n]

\* _validate_inputs, without its messages.
ValidateInputs ==
    /\ ~FloatRaises(min_gap_var)
    /\ Float(min_gap_var) > 0
    /\ selected_files # <<>>

\* Variant: the click handler without the test of is_processing.
MayStartUnguarded == ValidateInputs

\* if not self._validate_inputs() or self.is_processing: return
MayStart == ValidateInputs /\ ~is_processing

\* A thread at the first statement of _process_files_thread.
\* A thread at the first statement of _process_files_thread; accepted is the
\* value _validate_inputs accepted before the thread was started, and puts
\* the messages the thread has put on the queue.
NewThread(accepted) ==
    [pc |-> "read_min_gap", accepted |-> accepted, min_gap |-> 0,
     files |-> <<>>, i |-> 1, total_processed |-> 0, total_failed |-> 0,
     puts |-> <<>>]

\* import tkinter as tk: names the module tkinter defines.  Empty is none of
\* them: it is a name of the module queue, from which the shell imports
\* Queue only.
TkinterNames == {"Tk", "TclError", "StringVar", "BooleanVar", "END"}

\* except tk.Empty: the clause catches queue.Empty only if evaluating
\* tk.Empty gives that class; otherwise the evaluation raises AttributeError
\* and the callback ends with it.
EmptyIsCaught == "Empty" \in TkinterNames

\* processing_thread is a local of _process_files: the record of a thread
\* that has ended is kept until a "done" message is consumed.
Ended ==
    [pc |-> "ended", accepted |-> 0, min_gap |-> 0, files |-> <<>>, i |-> 1,
     total_processed |-> 0, total_failed |-> 0, puts |-> <<>>]

\* The position of the first "done" message of a queue, 0 if it has none.
FirstDone(q) ==
    IF \E i \in DOMAIN q : q[i].type = "done"
    THEN CHOOSE i \in DOMAIN q :
            q[i].type = "done" /\ \A j \in 1 .. i - 1 : q[j].type # "done"
    ELSE 0

\* The user types another text into the minimum-gap field.
EditMinGap ==
    /\ \E t \in MinGapTexts \ {min_gap_var} : min_gap_var' = t
    /\ UNCHANGED <<selected_files, is_processing, process_btn, processing_queue,
                   after_pending, threads>>
    /\ UNCHANGED <<detectorVars, callVars, outputVars, encodingVars>>

\* _browse_files
BrowseFiles ==
    /\ \E files \in Selections \ {selected_files} :
          /\ selected_files' = files
          /\ process_btn' = IF files # <<>> THEN "normal" ELSE "disabled"
    /\ UNCHANGED <<min_gap_var, is_processing, processing_queue, after_pending,
                   threads>>
    /\ UNCHANGED <<detectorVars, callVars, outputVars, encodingVars>>

\* _process_files: a click on the Process button, which reacts only when it
\* is in state "normal"; a click the handler rejects changes nothing.
ProcessFiles ==
    /\ process_btn = "normal"
    /\ Len(threads) < MaxBatches
    /\ IF MayStart
       THEN /\ process_btn' = "disabled"
            /\ is_processing' = TRUE
            /\ threads' = Append(threads, NewThread(Float(min_gap_var)))
            /\ after_pending' = after_pending + 1
       ELSE UNCHANGED <<process_btn, is_processing, threads, after_pending>>
    /\ UNCHANGED <<min_gap_var, selected_files, processing_queue>>
    /\ UNCHANGED <<detectorVars, callVars, outputVars, encodingVars>>

\* Thread k goes on as t2 after putting the messages msgs, in that order.
WorkerStep(k, t2, msgs) ==
    /\ threads' = [threads EXCEPT ![k] = [t2 EXCEPT !.puts = @ \o msgs]]
    /\ processing_queue' = processing_queue \o msgs
    /\ UNCHANGED <<min_gap_var, selected_files, is_processing, process_btn,
                   after_pending>>
    /\ UNCHANGED <<detectorVars, callVars, outputVars, encodingVars>>

\* The outer handler: except Exception as e: put(("error", "Error during
\* processing: ...")), then the finally clause.
BatchFailed(t, reason) ==
    <<[t EXCEPT !.pc = "finally"],
      <<Msg("error", "", "Error during processing: " \o reason, 0)>> >>

\* min_gap = float(self.min_gap_duration.get())
WorkerReadMinGap(k) ==
    /\ threads[k].pc = "read_min_gap"
    /\ LET t == threads[k]
           r == IF FloatRaises(min_gap_var)
                THEN BatchFailed(t, "could not convert string to float")
                ELSE <<[t EXCEPT !.pc = "setup", !.min_gap = Float(min_gap_var)],
                       <<>> >>
       IN  WorkerStep(k, r[1], r[2])

\* The output directories are made, GapDetector(min_gap_duration=min_gap) and
\* OutputGenerator() are constructed, and the loop takes self.selected_files.
WorkerSetup(k) ==
    /\ threads[k].pc = "setup"
    /\ \E mkdir \in {"ok", "OSError"} :
          LET t == threads[k]
              r == IF mkdir # "ok"
                   THEN BatchFailed(t, mkdir)
                   ELSE <<[t EXCEPT !.pc = "loop", !.files = selected_files],
                          <<>> >>
          IN  WorkerStep(k, r[1], r[2])

\* The loop takes its next file and puts the "Processing ..." status.
WorkerBeginFile(k) ==
    /\ threads[k].pc = "loop"
    /\ threads[k].i <= Len(threads[k].files)
    /\ LET t == threads[k]
       IN  WorkerStep(k, [t EXCEPT !.pc = "file"],
                      <<Msg("status", t.files[t.i].name, "Processing", 0)>>)

\* Variant: a failing file ends the loop, as if the loop had no handler of
\* its own.
FileFailedAborts(t, name, reason) == BatchFailed(t, reason)

\* except Exception as e: total_failed += 1; put(("error", "Error processing
\* <name>: ...")); the loop goes on with the next file.
FileFailed(t, name, reason) ==
    <<[t EXCEPT !.pc = "loop", !.i = @ + 1, !.total_failed = @ + 1],
      <<Msg("error", name, "Error processing: " \o reason, 0)>> >>

\* gap_detector.detect_gaps(file_path) with a detector of threshold m, for
\* the files of the dialog and the thresholds the field can give.
ShellThresholds == {Float(u) : u \in {v \in MinGapTexts : ~FloatRaises(v)}}
DetectGapsOf ==
    [f \in ShellFiles, m \in ShellThresholds |->
        DetectResult(LoadSrtFile(f.file), TimedeltaSeconds(m))]

\* The body of the loop after the status message, for one file: detect_gaps,
\* then the two artifacts the checkboxes ask for at that moment, each write
\* ending as the file system decides.
ProcessFile(t, gap_srt_on, summary_on, srt_write, summary_write) ==
    LET f == t.files[t.i]
        r == DetectGapsOf[f, t.min_gap]
        srt_msg == IF gap_srt_on
                   THEN <<Msg("status", f.name, "Generated gap SRT", 0)>>
                   ELSE <<>>
        sum_msg == IF summary_on
                   THEN <<Msg("status", f.name, "Generated summary", 0)>>
                   ELSE <<>>
    IN  IF r.outcome # "ok"
        THEN FileFailed(t, f.name, r.outcome)
        ELSE IF gap_srt_on /\ srt_write # "ok"
        THEN FileFailed(t, f.name, srt_write)
        ELSE IF summary_on /\ summary_write # "ok"
        THEN LET failed == FileFailed(t, f.name, summary_write)
             IN  <<failed[1], srt_msg \o failed[2]>>
        ELSE <<[t EXCEPT !.pc = "loop", !.i = @ + 1, !.total_processed = @ + 1],
               srt_msg \o sum_msg>>

WorkerProcessFile(k) ==
    /\ threads[k].pc = "file"
    /\ \E gap_srt_on, summary_on \in BOOLEAN :
       \E srt_write, summary_write \in {"ok", "OSError"} :
          LET r == ProcessFile(threads[k], gap_srt_on, summary_on,
                               srt_write, summary_write)
          IN  WorkerStep(k, r[1], r[2])

\* After the loop: put(("complete", (completion_message, total_processed))).
WorkerComplete(k) ==
    /\ threads[k].pc = "loop"
    /\ threads[k].i > Len(threads[k].files)
    /\ LET t == threads[k]
       IN  WorkerStep(k, [t EXCEPT !.pc = "finally"],
                      <<Msg("complete", "", "Processing complete",
                            t.total_processed)>>)

\* finally: put(("done", None)); the thread ends.
WorkerFinally(k) ==
    /\ threads[k].pc = "finally"
    /\ WorkerStep(k, [threads[k] EXCEPT !.pc = "finished"],
                  <<Msg("done", "", "", 0)>>)

Worker ==
    \E k \in DOMAIN threads :
        \/ WorkerReadMinGap(k)
        \/ WorkerSetup(k)
        \/ WorkerBeginFile(k)
        \/ WorkerProcessFile(k)
        \/ WorkerComplete(k)
        \/ WorkerFinally(k)

\* _check_processing_complete, one call: the messages are taken in order up
\* to the first "done"; when the queue runs empty before one is found,
\* get_nowait raises queue.Empty and the handler decides about the next call.
CheckProcessingComplete ==
    /\ after_pending > 0
    /\ LET d == FirstDone(processing_queue)
       IN  IF d > 0
           THEN /\ processing_queue' =
                      SubSeq(processing_queue, d + 1, Len(processing_queue))
                /\ is_processing' = FALSE
                /\ process_btn' = "normal"
                /\ after_pending' = after_pending - 1
                /\ threads' = [k \in DOMAIN threads |->
                                  IF threads[k].pc = "finished"
                                  THEN Ended ELSE threads[k]]
           ELSE /\ processing_queue' = <<>>
                /\ after_pending' =
                      IF EmptyIsCaught THEN after_pending ELSE after_pending - 1
                /\ UNCHANGED <<is_processing, process_btn, threads>>
    /\ UNCHANGED <<min_gap_var, selected_files>>
    /\ UNCHANGED <<detectorVars, callVars, outputVars, encodingVars>>

NextShell ==
    \/ EditMinGap
    \/ BrowseFiles
    \/ ProcessFiles
    \/ Worker
    \/ CheckProcessingComplete

SpecShell == Init /\ [][NextShell]_vars

\* The scheduler runs a thread that can run, and the event loop of tkinter
\* runs a callback that after() has scheduled.
FairShell ==
    /\ Init
    /\ [][NextShell]_vars
    /\ WF_vars(Worker)
    /\ WF_vars(CheckProcessingComplete)

----------------------------------------------------------------------------
\* Encoding detection and decoding of one file.

\* A file is given to the loader.
GiveFile ==
    /\ enc_file = NoFile
    /\ \E f \in EncodedFiles : enc_file' = f
    /\ UNCHANGED <<detection, decoding, enc_loaded>>
    /\ UNCHANGED <<detectorVars, callVars, outputVars, shellVars>>

\* EncodingDetector.detect_file_encoding(path)
DetectEncoding ==
    /\ enc_file # NoFile
    /\ detection = NoDetection
    /\ detection' = DetectFileEncoding(enc_file.bytes, enc_file.chardet)
    /\ UNCHANGED <<enc_file, decoding, enc_loaded>>
    /\ UNCHANGED <<detectorVars, callVars, outputVars, shellVars>>

\* InputHandler.load_srt_file(path), with the decoding it made.
LoadEncoded ==
    /\ enc_file # NoFile
    /\ enc_loaded.outcome = "none"
    /\ decoding' = DecodeFile(enc_file)
    /\ enc_loaded' = LoadSrtFile(enc_file)
    /\ UNCHANGED <<enc_file, detection>>
    /\ UNCHANGED <<detectorVars, callVars, outputVars, shellVars>>

NextEncoding ==
    \/ GiveFile
    \/ DetectEncoding
    \/ LoadEncoded

SpecEncoding == Init /\ [][NextEncoding]_vars

----------------------------------------------------------------------------
\* Reference definitions for the properties, independent of the operators above.

\* The position of subs[i] in the ascending order by start time that keeps
\* entries with equal start times in their original order.
Rank(subs, i) ==
    1 + Cardinality({j \in DOMAIN subs :
                        \/ subs[j].start < subs[i].start
                        \/ subs[j].start = subs[i].start /\ j < i})

StableOrder(subs) ==
    [k \in DOMAIN subs |-> subs[CHOOSE i \in DOMAIN subs : Rank(subs, i) = k]]

\* The adjacent pairs (i, i+1) of s whose difference, in microseconds, is at
\* least min_gap.
EmittingPairs(s, min_gap) ==
    {i \in 1 .. Len(s) - 1 : (s[i + 1].start - s[i].end) * 1000 >= min_gap}

\* The k-th smallest element of a set of integers.
Kth(P, k) == CHOOSE i \in P : Cardinality({j \in P : j < i}) = k - 1

Returned == calls > 0 /\ result.outcome = "ok"

OutOfOrder(subs) == \E i \in 1 .. Len(subs) - 1 : subs[i].start > subs[i + 1].start

\* The input file, judged without the loader: its path is acceptable, and the
\* blocks pysrt can parse.
PathAccepted(f) == f.exists /\ f.suffix \in {".srt", ".SRT"}
Parsable(f) == {i \in DOMAIN f.blocks : f.blocks[i].wellformed}

----------------------------------------------------------------------------
\* Properties.

\* C1: for every loaded track and every positive threshold, the gaps
\* detect_gaps returns are exactly the adjacent pairs (current, next) of the
\* stable ascending order by start time with
\* next.start - current.end >= min_gap_duration, in that order, each gap
\* running from current.end to next.start; equality emits a gap.
C1_GapIffThreshold ==
    (Returned /\ min_gap_arg > 0) =>
        LET s == StableOrder(loaded.subs)
            P == EmittingPairs(s, min_gap_duration)
        IN  /\ Len(result.gaps) = Cardinality(P)
            /\ \A k \in DOMAIN result.gaps :
                  LET i == Kth(P, k)
                      g == result.gaps[k]
                  IN  /\ g.start_time = s[i].end * 1000
                      /\ g.end_time = s[i + 1].start * 1000
                      /\ g.duration = g.end_time - g.start_time
                      /\ g.previous_subtitle = s[i].text
                      /\ g.next_subtitle = s[i + 1].text

\* C1 witness: an out-of-order track with two entries of equal start time, a
\* positive threshold, and an emitted gap whose duration equals the threshold.
C1_Witness ==
    /\ Returned
    /\ min_gap_arg > 0
    /\ min_gap_duration > 0
    /\ OutOfOrder(loaded.subs)
    /\ \E i, j \in DOMAIN loaded.subs :
          i # j /\ loaded.subs[i].start = loaded.subs[j].start
    /\ \E k \in DOMAIN result.gaps : result.gaps[k].duration = min_gap_duration

\* C2: no emitted gap has a negative duration, whatever the threshold: an
\* adjacent pair of the sorted order whose next entry starts before the
\* current one ends emits no gap.
C2_NoNegativeGap ==
    Returned => \A k \in DOMAIN result.gaps : result.gaps[k].duration >= 0

\* C3: loading the marker file written for a gap list gives a track with as
\* many entries as the list has gaps, the i-th entry starting and ending at
\* the i-th gap's start_time and end_time (the empty list included).
C3_RoundTrip ==
    gen = "reloaded" =>
        /\ reloaded.outcome = "ok"
        /\ Len(reloaded.subs) = Len(result.gaps)
        /\ \A i \in DOMAIN reloaded.subs :
              /\ i \in DOMAIN result.gaps
              /\ reloaded.subs[i].start * 1000 = result.gaps[i].start_time
              /\ reloaded.subs[i].end * 1000 = result.gaps[i].end_time

\* C4: every track load_srt_file returns is non-empty, and each of its
\* entries has non-empty text and a start time strictly below its end time.
C4_LoadedTrackWellFormed ==
    (calls > 0 /\ loaded.outcome = "ok") =>
        /\ Len(loaded.subs) > 0
        /\ \A i \in DOMAIN loaded.subs :
              /\ loaded.subs[i].text # ""
              /\ loaded.subs[i].start < loaded.subs[i].end

\* C5: load_srt_file raises ValueError, with a reason, when the path does not
\* exist, when the extension is not an accepted one, when no block of the
\* content parses, when the track has no entry, and when an entry has no
\* text; a zero-entry track never gives another kind of error (nor a track).
C5_InvalidInputIsValueError ==
    /\ calls > 0 =>
          /\ (~PathAccepted(file)
              \/ (file.read = "ok"
                  /\ (Parsable(file) = {}
                      \/ \E i \in Parsable(file) : file.blocks[i].text = "")))
                => (loaded.outcome = "ValueError" /\ loaded.reason # ""
                    /\ result.outcome = "ValueError")
    /\ (gen = "reloaded" /\ outfile.blocks = <<>>)
          => (reloaded.outcome = "ValueError" /\ reloaded.reason # "")

\* C5 witness: a missing path, a wrong extension, an unparsable content and an
\* entry without text are each in the reachable states; this one is the
\* zero-entry track of an existing .srt file.
C5_Witness ==
    /\ calls > 0
    /\ PathAccepted(file)
    /\ file.read = "ok"
    /\ file.blocks = <<>>
    /\ loaded.outcome = "ValueError"

\* The track loaded by the latest call yields no gap: one entry, or every
\* adjacent difference of the sorted order below the threshold.
NoGapFound ==
    /\ calls > 0
    /\ loaded.outcome = "ok"
    /\ EmittingPairs(StableOrder(loaded.subs), min_gap_duration) = {}

\* C6: when detect_gaps finds no gap, it raises nothing and its statistics
\* are total_gaps = 0 and the zero duration for total, average, minimum and
\* maximum.
C6_EmptyStatistics ==
    NoGapFound =>
        /\ result.outcome = "ok"
        /\ result.gaps = <<>>
        /\ result.stats.total_gaps = 0
        /\ result.stats.total_duration = 0
        /\ result.stats.average_duration = 0
        /\ result.stats.min_duration = 0
        /\ result.stats.max_duration = 0

\* C6 witness: a track of several entries, none of its adjacent differences
\* reaching a positive threshold.
C6_Witness ==
    /\ NoGapFound
    /\ Len(loaded.subs) >= 2
    /\ min_gap_duration > 0
    /\ result.stats.total_gaps = 0

\* C7: for a non-empty gap list, total_gaps is its length, total_duration the
\* sum of its durations, average_duration the quotient total_duration /
\* total_gaps (a timedelta: to the nearest microsecond), min_duration and
\* max_duration the smallest and the largest duration, and
\* min_duration <= average_duration <= max_duration.
C7_Statistics ==
    (Returned /\ result.gaps # <<>>) =>
        LET st == result.stats
            n == Len(result.gaps)
            dur == {result.gaps[i].duration : i \in DOMAIN result.gaps}
        IN  /\ st.total_gaps = n
            /\ st.total_duration = SumSeq([i \in DOMAIN result.gaps |-> result.gaps[i].duration])
            /\ 2 * (st.average_duration * n - st.total_duration) <= n
            /\ 2 * (st.total_duration - st.average_duration * n) <= n
            /\ st.min_duration \in dur
            /\ st.max_duration \in dur
            /\ \A d \in dur : st.min_duration <= d /\ d <= st.max_duration
            /\ st.min_duration <= st.average_duration
            /\ st.average_duration <= st.max_duration

\* C7 witness: two gaps of different durations under a positive threshold.
C7_Witness ==
    /\ Returned
    /\ min_gap_arg > 0
    /\ Len(result.gaps) >= 2
    /\ result.stats.min_duration < result.stats.max_duration

C9_AtMostNMinusOne ==
    Returned =>
        /\ Len(loaded.subs) >= 1
        /\ Len(result.gaps) <= Len(loaded.subs) - 1
        /\ (Len(loaded.subs) = 1 => result.gaps = <<>>)

\* C9 witness: N - 1 gaps from N >= 2 entries, and so the bound is reached.
C9_Witness ==
    /\ Returned
    /\ Len(loaded.subs) >= 2
    /\ Len(result.gaps) = Len(loaded.subs) - 1

\* C10: generate_gap_srt builds one entry per gap, in the order of the gap
\* list, with the indices 1, 2, ..., each entry starting and ending at its
\* gap's start_time and end_time and carrying the configured marker text.
C10_MarkerTrack ==
    gen \in {"written", "reloaded"} =>
        /\ Len(track) = Len(result.gaps)
        /\ \A i \in DOMAIN track :
              /\ i \in DOMAIN result.gaps
              /\ track[i].index = i
              /\ track[i].start * 1000 = result.gaps[i].start_time
              /\ track[i].end * 1000 = result.gaps[i].end_time
              /\ track[i].text = gap_text


----------------------------------------------------------------------------
\* Properties of the batch run.

\* The positions of the messages of type ty naming the file name among the
\* messages a thread has put.
PutsOf(t, ty, name) ==
    {i \in DOMAIN t.puts : t.puts[i].type = ty /\ t.puts[i].name = name}

\* The thread has begun the loop over its files, has put its "complete"
\* message, has left the try statement.
EnteredLoop(t) == \E i \in DOMAIN t.puts : t.puts[i].type = "status"
Completed(t) == \E i \in DOMAIN t.puts : t.puts[i].type = "complete"
LeftTry(t) == t.pc \in {"finally", "finished"}

\* The files of a thread that have an error message naming them.
FailedFiles(t) ==
    {j \in DOMAIN t.files : PutsOf(t, "error", t.files[j].name) # {}}

\* C11: in a batch run over k files, a failure while processing one file does
\* not stop the processing of the others: a worker that has begun its loop
\* leaves it only through the "complete" message, and then every file was
\* attempted exactly once (one "Processing" status naming it), every file
\* that failed (every file load_srt_file rejects among them) has exactly one
\* error message naming it, and succeeded-count + failed-count = k, with the
\* succeeded-count the one the "complete" message carries.
C11_FailureIsolated ==
    \A k \in DOMAIN threads :
        LET t == threads[k]
        IN  /\ (LeftTry(t) /\ EnteredLoop(t)) => Completed(t)
            /\ Completed(t) =>
                  /\ \A j \in DOMAIN t.files :
                        /\ Cardinality({i \in PutsOf(t, "status", t.files[j].name) :
                                           t.puts[i].text = "Processing"}) = 1
                        /\ Cardinality(PutsOf(t, "error", t.files[j].name)) <= 1
                        /\ LoadSrtFile(t.files[j].file).outcome # "ok"
                              => j \in FailedFiles(t)
                  /\ PutsOf(t, "error", "") = {}
                  /\ t.total_failed = Cardinality(FailedFiles(t))
                  /\ t.total_processed = Len(t.files) - Cardinality(FailedFiles(t))
                  /\ t.total_processed + t.total_failed = Len(t.files)
                  /\ \A i \in DOMAIN t.puts :
                        t.puts[i].type = "complete" => t.puts[i].n = t.total_processed

\* C11 witness: a batch over two files has completed; its first file failed
\* and its second file was processed after that failure.
C11_Witness ==
    \E k \in DOMAIN threads :
        LET t == threads[k]
        IN  /\ Completed(t)
            /\ Len(t.files) = 2
            /\ t.total_failed = 1
            /\ t.total_processed = 1
            /\ \E e \in PutsOf(t, "error", t.files[1].name) :
               \E p \in PutsOf(t, "status", t.files[2].name) : e < p

\* C12: detection is never run with a non-positive minimum gap duration: the
\* threshold a worker thread has constructed its GapDetector with is
\* strictly positive and is the value _validate_inputs accepted before the
\* thread was started, however the edits of the field interleave.
C12_ValidatedThreshold ==
    \A k \in DOMAIN threads :
        threads[k].pc \in {"loop", "file"} =>
            /\ threads[k].min_gap > 0
            /\ threads[k].min_gap = threads[k].accepted


----------------------------------------------------------------------------
\* Properties of encoding detection and decoding.

\* The bytes are UTF-8 text, with or without marks; the encoding decodes
\* them.  Stated on the byte units, without the codecs above.
Utf8Text(raw) == \A i \in DOMAIN raw : raw[i] \in {"bom", "a", "u2"}
Decodable(name, raw) ==
    IF name \in {"utf-8", "utf-8-sig"} THEN Utf8Text(raw)
    ELSE IF name \in {"cp1252", "windows-1252"} THEN \A i \in DOMAIN raw : raw[i] # "81"
    ELSE IF name = "ascii" THEN \A i \in DOMAIN raw : raw[i] = "a"
    ELSE TRUE

\* The encodings of a list that decode the bytes, by position.
DecodingPositions(encodings, raw) ==
    {i \in DOMAIN encodings : Decodable(encodings[i], raw)}

\* The least element of a non-empty set of integers.
Least(P) == CHOOSE i \in P : \A j \in P : i <= j

\* An encoding name in lower case.
InLowerCase(name) ==
    CASE name = "ISO-8859-1" -> "iso-8859-1"
      [] name = "Windows-1252" -> "windows-1252"
      [] OTHER -> name

\* The result the four-step precedence asks for, the statistical name
\* reported as chardet gives it (as_given) or in lower case.
Precedence(raw, cd, as_given) ==
    LET names == <<"utf-8", "utf-8-sig", "iso-8859-1", "cp1252">>
        P == DecodingPositions(names, raw)
    IN  IF Utf8Text(raw) THEN Guess("utf-8-sig", 100)
        ELSE IF cd.encoding # "" /\ cd.confidence >= 80
        THEN Guess(IF as_given THEN cd.encoding ELSE InLowerCase(cd.encoding),
                   cd.confidence)
        ELSE IF P # {} THEN Guess(names[Least(P)], 100)
        ELSE Guess("cp1252", 50)

Detected == detection # NoDetection

\* C13, as claimed: detect_file_encoding follows the four-step precedence for
\* every byte stream: bytes that decode as UTF-8 with a byte-order mark give
\* that encoding with confidence 1.0; otherwise a statistical result with
\* confidence >= 0.8 is returned verbatim; otherwise the first of UTF-8,
\* UTF-8 with BOM, ISO-8859-1, Windows-1252 that decodes is returned with
\* confidence 1.0; and Windows-1252 with confidence 0.5 only if none decodes.
C13_PrecedenceVerbatim ==
    Detected => detection = Precedence(enc_file.bytes, enc_file.chardet, TRUE)

\* C13, amended: the same precedence, the statistical result of step (2)
\* returned with its encoding name in lower case and its confidence
\* unchanged.
C13_PrecedenceLowerCase ==
    Detected => detection = Precedence(enc_file.bytes, enc_file.chardet, FALSE)

\* C13 witness: bytes that are not UTF-8, for which chardet reports
\* "ISO-8859-1" with a confidence of at least 0.8: the detector returns
\* "iso-8859-1" with that confidence.
C13_Witness ==
    /\ Detected
    /\ ~Utf8Text(enc_file.bytes)
    /\ enc_file.chardet.encoding = "ISO-8859-1"
    /\ enc_file.chardet.confidence >= 80
    /\ detection = Guess("iso-8859-1", enc_file.chardet.confidence)


\* The encoding the detector is to return for the file, by the precedence.
DetectedFor(f) == Precedence(f.bytes, f.chardet, FALSE).encoding

LoadedEncoded == enc_loaded.outcome # "none"

\* C14: when decoding the file with the detected encoding fails,
\* load_srt_file retries Windows-1252, Latin-1, ISO-8859-1 in that order and
\* uses the first that decodes (pysrt parses whatever text it is given) and
\* the load succeeds; it fails, with a ValueError whose text carries the
\* decode error of the detected encoding, only if none of the three decodes.
C14_FallbackOrder ==
    (LoadedEncoded /\ ~Decodable(DetectedFor(enc_file), enc_file.bytes)) =>
        LET names == <<"cp1252", "latin-1", "iso-8859-1">>
            P == DecodingPositions(names, enc_file.bytes)
        IN  IF P # {}
            THEN /\ decoding.outcome = "ok"
                 /\ decoding.encoding = names[Least(P)]
                 /\ enc_loaded.outcome = "ok"
            ELSE /\ enc_loaded.outcome = "ValueError"
                 /\ enc_loaded.reason =
                       "Invalid SRT file: Failed to decode file with any known encoding: "
                       \o "'" \o DetectedFor(enc_file) \o "' codec can't decode byte"

\* C14 witness: the detected encoding does not decode the file, Windows-1252
\* does not either, and the file is loaded as Latin-1.
C14_Witness ==
    /\ LoadedEncoded
    /\ ~Decodable(DetectedFor(enc_file), enc_file.bytes)
    /\ ~Decodable("cp1252", enc_file.bytes)
    /\ decoding.encoding = "latin-1"
    /\ enc_loaded.outcome = "ok"


----------------------------------------------------------------------------
\* Properties of the shell's return to idle and of its worker threads.

Idle == ~is_processing /\ process_btn = "normal"

\* C15: after a Process click that starts a batch the shell eventually
\* returns to idle: under fair scheduling of the worker thread and of the
\* poll callback, whatever the timing of the worker's puts relative to the
\* polls, the "done" message is consumed, is_processing becomes False and the
\* Process button is enabled again.
C15_ReturnsToIdle == is_processing ~> Idle


\* The worker threads that have been started and have not ended.
Running == {k \in DOMAIN threads : threads[k].pc \notin {"finished", "ended"}}

\* The positions of the "done" messages among the messages of a thread.
DonePuts(t) == {i \in DOMAIN t.puts : t.puts[i].type = "done"}

\* At most one worker thread is running; a thread that has not ended has put
\* no "done" message, and one that has ended has put exactly one, as its
\* last message.
OneWorkerOneDone ==
    /\ Cardinality(Running) <= 1
    /\ \A k \in DOMAIN threads :
          LET t == threads[k]
          IN  /\ t.pc \notin {"finished", "ended"} => DonePuts(t) = {}
              /\ t.pc = "finished" => DonePuts(t) = {Len(t.puts)}

\* C16: at most one batch worker thread is running at any time: for every
\* sequence of Browse and Process clicks, no step taken while is_processing
\* is True starts a thread, and each started worker puts exactly one "done"
\* message on the queue, as its last message.
C16_OneWorker ==
    /\ []OneWorkerOneDone
    /\ [][is_processing => Len(threads') = Len(threads)]_vars

\* C16 witness: while a worker runs, Browse has enabled the Process button
\* again and the input is valid, so that a click reaches the handler and
\* only the test of is_processing keeps it from starting a second thread.
C16_Witness ==
    /\ is_processing
    /\ process_btn = "normal"
    /\ ValidateInputs
    /\ Len(threads) < MaxBatches
    /\ Running # {}


----------------------------------------------------------------------------
\* Property of the emitted gaps as silence.

\* The display interval [start, end] of an entry (milliseconds) meets the
\* open interval (start_time, end_time) of a gap (microseconds).
OnDisplayDuring(sub, gap) ==
    /\ sub.start <= sub.end
    /\ gap.start_time < gap.end_time
    /\ sub.start * 1000 < gap.end_time
    /\ gap.start_time < sub.end * 1000

\* C17: every gap emitted by detect_gaps is real silence: for every loaded
\* track and positive threshold, no entry of the track is on display during
\* an emitted gap, and the emitted gaps are pairwise disjoint and in
\* ascending time order.
C17_GapsAreSilence ==
    (Returned /\ min_gap_arg > 0) =>
        /\ \A k \in DOMAIN result.gaps : \A i \in DOMAIN loaded.subs :
              ~OnDisplayDuring(loaded.subs[i], result.gaps[k])
        /\ \A k, l \in DOMAIN result.gaps :
              k < l => result.gaps[k].end_time <= result.gaps[l].start_time

============================================================================
